---- MODULE Spec2Model ----
(***************************************************************************)
(* A model of satori/element.py: the element classes, their string         *)
(* rendering (__str__), Resource.of, and transform (RawElement -> Element).*)
(*                                                                         *)
(* Python str values that the code inspects or escapes are sequences of    *)
(* one-character strings; rendered markup is a TLC string built with \o.   *)
(* A Python value is a record [kind, b, n, s]; a Python dict (insertion    *)
(* ordered) is a sequence of [k, v] records; a call returns [ok, err, val],*)
(* err naming the exception raised when ok is FALSE.                       *)
(***************************************************************************)
EXTENDS Integers, Sequences, FiniteSets, TLC

VARIABLES pc, op, elements, args, msg, out

vars == <<pc, op, elements, args, msg, out>>

-----------------------------------------------------------------------------
(* Bounds of the input domain *)

\* largest number of nodes in a forest of raw elements given to transform
MaxNodes == 3
\* largest number of attributes on a raw element of the attribute family
MaxAttrs == 2

-----------------------------------------------------------------------------
(* Python values *)

VNone == [kind |-> "none", b |-> FALSE, n |-> 0, s |-> <<>>]
VEllipsis == [kind |-> "ellipsis", b |-> FALSE, n |-> 0, s |-> <<>>]
\* marker for a list of elements; the list itself is the element's kids
VList == [kind |-> "list", b |-> FALSE, n |-> 0, s |-> <<>>]
VBool(x) == [kind |-> "bool", b |-> x, n |-> 0, s |-> <<>>]
VInt(x) == [kind |-> "int", b |-> FALSE, n |-> x, s |-> <<>>]
VStr(x) == [kind |-> "str", b |-> FALSE, n |-> 0, s |-> x]

Ok(v) == [ok |-> TRUE, err |-> "", val |-> v]
Raise(e) == [ok |-> FALSE, err |-> e, val |-> <<>>]

\* a character sequence as one string
RECURSIVE Flat(_)
Flat(cs) == IF cs = <<>> THEN "" ELSE cs[1] \o Flat(Tail(cs))

\* sep.join(parts), parts a sequence of strings
RECURSIVE Join(_, _)
Join(sep, parts) ==
    IF parts = <<>> THEN ""
    ELSE IF Len(parts) = 1 THEN parts[1]
    ELSE parts[1] \o sep \o Join(sep, Tail(parts))

DigitChars == <<"0", "1", "2", "3", "4", "5", "6", "7", "8", "9">>

\* the decimal digits of a natural number
RECURSIVE Digits(_)
Digits(n) ==
    IF n < 10 THEN <<DigitChars[n + 1]>>
    ELSE Digits(n \div 10) \o <<DigitChars[(n % 10) + 1]>>

\* str(value), as characters
PyStr(v) ==
    CASE v.kind = "str" -> v.s
      [] v.kind = "none" -> <<"N", "o", "n", "e">>
      [] v.kind = "bool" -> (IF v.b THEN <<"T", "r", "u", "e">> ELSE <<"F", "a", "l", "s", "e">>)
      [] v.kind = "int" -> Digits(v.n)
      [] v.kind = "ellipsis" -> <<"E", "l", "l", "i", "p", "s", "i", "s">>
      [] OTHER -> <<"[", "]">>

\* bool(value) for the kinds that are not lists
Truthy(v) ==
    CASE v.kind = "str" -> v.s # <<>>
      [] v.kind = "bool" -> v.b
      [] v.kind = "int" -> v.n # 0
      [] v.kind = "ellipsis" -> TRUE
      [] OTHER -> FALSE

\* the reserved characters and their entities
EscapeChar(c) ==
    CASE c = "&" -> "&amp;"
      [] c = "<" -> "&lt;"
      [] c = ">" -> "&gt;"
      [] c = "\"" -> "&quot;"
      [] OTHER -> c

\* escape(text) of satori/parser.py, text a character sequence
RECURSIVE escape(_)
escape(cs) == IF cs = <<>> THEN "" ELSE EscapeChar(cs[1]) \o escape(Tail(cs))

\* escape(value) where the code passes a field without str(): a value that
\* is no str has no replace method
EscapeValue(v) == IF v.kind = "str" THEN Ok(escape(v.s)) ELSE Raise("AttributeError")

-----------------------------------------------------------------------------
(* Ordered dicts *)

Keys(d) == {d[i].k : i \in DOMAIN d}
Has(d, key) == key \in Keys(d)
Get(d, key) == d[CHOOSE i \in DOMAIN d : d[i].k = key].v
\* d[key] = v, or setattr(obj, key, v) on the instance dict: an existing
\* key keeps its place, a new key goes last
SetItem(d, key, v) ==
    IF Has(d, key)
    THEN [i \in DOMAIN d |-> IF d[i].k = key THEN [k |-> key, v |-> v] ELSE d[i]]
    ELSE Append(d, [k |-> key, v |-> v])

RECURSIVE SetAll(_, _)
SetAll(d, items) ==
    IF items = <<>> THEN d
    ELSE SetAll(SetItem(d, items[1].k, items[1].v), Tail(items))

\* key.startswith("_")
StartsUnderscore(key) == key # <<>> /\ key[1] = "_"

\* names the code uses
k_text == <<"t", "e", "x", "t">>
k_id == <<"i", "d">>
k_name == <<"n", "a", "m", "e">>
k_role == <<"r", "o", "l", "e">>
k_type == <<"t", "y", "p", "e">>
k_url == <<"u", "r", "l">>
k_display == <<"d", "i", "s", "p", "l", "a", "y">>
k_href == <<"h", "r", "e", "f">>
k_src == <<"s", "r", "c">>
k_cache == <<"c", "a", "c", "h", "e">>
k_timeout == <<"t", "i", "m", "e", "o", "u", "t">>
k_width == <<"w", "i", "d", "t", "h">>
k_height == <<"h", "e", "i", "g", "h", "t">>
k_forward == <<"f", "o", "r", "w", "a", "r", "d">>
k_content == <<"c", "o", "n", "t", "e", "n", "t">>
k_nickname == <<"n", "i", "c", "k", "n", "a", "m", "e">>
k_avatar == <<"a", "v", "a", "t", "a", "r">>

-----------------------------------------------------------------------------
(* Element classes *)

\* an instance: its class, its __dict__ in insertion order, and for the
\* classes holding a list or a mapping, the list (content or children) and
\* the mapping (Custom.attrs) with Custom's tag
Elem(cls, d, kids) == [cls |-> cls, dict |-> d, tag |-> "", attrs |-> <<>>, kids |-> kids]

F(name, req) == [name |-> name, req |-> req]

ResourceFields == <<F(k_src, TRUE), F(k_cache, FALSE), F(k_timeout, FALSE)>>

\* dataclasses.fields(cls), in declaration order; req marks a field
\* without a default
Fields(cls) ==
    CASE cls = "Text" -> <<F(k_text, TRUE)>>
      [] cls = "At" -> <<F(k_id, FALSE), F(k_name, FALSE), F(k_role, FALSE), F(k_type, FALSE)>>
      [] cls = "Sharp" -> <<F(k_id, TRUE), F(k_name, FALSE)>>
      [] cls = "Link" -> <<F(k_url, TRUE), F(k_display, FALSE)>>
      [] cls \in {"Resource", "Audio", "Video", "File"} -> ResourceFields
      [] cls = "Image" -> ResourceFields \o <<F(k_width, FALSE), F(k_height, FALSE)>>
      [] cls \in {"Message", "Quote"} ->
            <<F(k_id, FALSE), F(k_forward, FALSE), F(k_content, FALSE)>>
      [] cls = "Author" -> <<F(k_id, TRUE), F(k_nickname, FALSE), F(k_avatar, FALSE)>>
      [] OTHER -> <<F(k_text, TRUE)>>

FieldNames(cls) == {Fields(cls)[i].name : i \in DOMAIN Fields(cls)}

\* cls(**kw): the generated __init__ assigns every field in declaration
\* order, None where a default applies; a missing required field or an
\* unexpected keyword is a TypeError
Construct(cls, kw) ==
    LET fs == Fields(cls) IN
    IF \/ \E i \in DOMAIN fs : fs[i].req /\ ~Has(kw, fs[i].name)
       \/ \E key \in Keys(kw) : key \notin FieldNames(cls)
    THEN Raise("TypeError")
    ELSE Ok(Elem(cls,
                 [i \in DOMAIN fs |->
                    [k |-> fs[i].name,
                     v |-> IF Has(kw, fs[i].name) THEN Get(kw, fs[i].name) ELSE VNone]],
                 <<>>))

\* Element.from_raw
Element_from_raw(cls, raw) ==
    LET InFields(item) == item.k \in FieldNames(cls)
        NotInFields(item) == item.k \notin FieldNames(cls)
        result == Construct(cls, SelectSeq(raw.attrs, InFields))
    IN  IF ~result.ok THEN result
        ELSE Ok([result.val EXCEPT
                   !.dict = SetAll(result.val.dict, SelectSeq(raw.attrs, NotInFields))])

\* Link.from_raw
Link_from_raw(raw) ==
    IF ~Has(raw.attrs, k_href) THEN Raise("KeyError")
    ELSE IF raw.children # <<>> /\ ~Has(raw.children[1].attrs, k_text) THEN Raise("KeyError")
    ELSE LET display == IF raw.children # <<>> THEN Get(raw.children[1].attrs, k_text)
                        ELSE VNone
             res == Construct("Link", <<[k |-> k_url, v |-> Get(raw.attrs, k_href)],
                                        [k |-> k_display, v |-> display]>>)
             NotHref(item) == item.k # k_href
         IN  Ok([res.val EXCEPT !.dict = SetAll(res.val.dict, SelectSeq(raw.attrs, NotHref))])

\* Style.from_raw
Style_from_raw(cls, raw) ==
    IF raw.children = <<>> THEN Raise("IndexError")
    ELSE IF ~Has(raw.children[1].attrs, k_text) THEN Raise("KeyError")
    ELSE LET res == Construct(cls, <<[k |-> k_text, v |-> Get(raw.children[1].attrs, k_text)]>>)
         IN  Ok([res.val EXCEPT !.dict = SetAll(res.val.dict, raw.attrs)])

\* Custom with the children in reverse order
Custom_reversed(type, attrs, children) ==
    [cls |-> "Custom", dict |-> <<>>, tag |-> type, attrs |-> attrs,
     kids |-> [i \in DOMAIN children |-> children[Len(children) + 1 - i]]]

\* Custom(type, attrs, children)
Custom(type, attrs, children) ==
    [cls |-> "Custom", dict |-> <<>>, tag |-> type, attrs |-> attrs, kids |-> children]

ELEMENT_TYPE_MAP ==
    ("text" :> "Text") @@ ("at" :> "At") @@ ("sharp" :> "Sharp") @@ ("img" :> "Image")
    @@ ("audio" :> "Audio") @@ ("video" :> "Video") @@ ("file" :> "File")
    @@ ("author" :> "Author")

\* the style table without the alias strong
STYLE_TYPE_MAP_no_strong ==
    ("b" :> "Bold") @@ ("i" :> "Italic") @@ ("em" :> "Italic")
    @@ ("u" :> "Underline") @@ ("ins" :> "Underline") @@ ("s" :> "Strikethrough")
    @@ ("del" :> "Strikethrough") @@ ("spl" :> "Spoiler") @@ ("code" :> "Code")
    @@ ("sup" :> "Superscript") @@ ("sub" :> "Subscript") @@ ("p" :> "Paragraph")

STYLE_TYPE_MAP ==
    ("b" :> "Bold") @@ ("strong" :> "Bold") @@ ("i" :> "Italic") @@ ("em" :> "Italic")
    @@ ("u" :> "Underline") @@ ("ins" :> "Underline") @@ ("s" :> "Strikethrough")
    @@ ("del" :> "Strikethrough") @@ ("spl" :> "Spoiler") @@ ("code" :> "Code")
    @@ ("sup" :> "Superscript") @@ ("sub" :> "Subscript") @@ ("p" :> "Paragraph")

\* res.content = transform(elem.children)
SetContent(res, content) ==
    [res EXCEPT !.dict = SetItem(res.dict, k_content, VList), !.kids = content]

RECURSIVE transform(_)
RECURSIVE TransformElem(_)

\* Message.from_raw / Quote.from_raw followed by the conversion of the
\* children, when there are any
TransformContainer(cls, elem) ==
    LET res == Element_from_raw(cls, elem) IN
    IF ~res.ok \/ elem.children = <<>> THEN res
    ELSE LET content == transform(elem.children) IN
         IF ~content.ok THEN content ELSE Ok(SetContent(res.val, content.val))

\* one pass of the loop of transform: the element appended for elem
TransformElem(elem) ==
    IF elem.type \in DOMAIN ELEMENT_TYPE_MAP
    THEN Element_from_raw(ELEMENT_TYPE_MAP[elem.type], elem)
    ELSE IF elem.type \in {"a", "link"} THEN Link_from_raw(elem)
    ELSE IF elem.type \in DOMAIN STYLE_TYPE_MAP
    THEN Style_from_raw(STYLE_TYPE_MAP[elem.type], elem)
    ELSE IF elem.type \in {"br", "newline"}
    THEN Construct("Br", <<[k |-> k_text, v |-> VStr(<<"\n">>)]>>)
    ELSE IF elem.type = "message" THEN TransformContainer("Message", elem)
    ELSE IF elem.type = "quote" THEN TransformContainer("Quote", elem)
    ELSE LET children == transform(elem.children) IN
         IF ~children.ok THEN children
         ELSE Ok(Custom(elem.type, elem.attrs, children.val))

\* transform that skips an element whose conversion raises
RECURSIVE transform_partial(_)
transform_partial(es) ==
    IF es = <<>> THEN Ok(<<>>)
    ELSE LET first == TransformElem(es[1])
             rest == transform_partial(Tail(es))
         IN  IF ~first.ok THEN rest
             ELSE IF ~rest.ok THEN rest ELSE Ok(<<first.val>> \o rest.val)

\* transform that puts each element in front of the list
RECURSIVE transform_prepend(_)
transform_prepend(es) ==
    IF es = <<>> THEN Ok(<<>>)
    ELSE LET first == TransformElem(es[1]) IN
         IF ~first.ok THEN first
         ELSE LET rest == transform_prepend(Tail(es)) IN
              IF ~rest.ok THEN rest ELSE Ok(rest.val \o <<first.val>>)

\* transform(elements): the elements in order; the first exception ends
\* the call
transform(es) ==
    IF es = <<>> THEN Ok(<<>>)
    ELSE LET first == TransformElem(es[1]) IN
         IF ~first.ok THEN first
         ELSE LET rest == transform(Tail(es)) IN
              IF ~rest.ok THEN rest ELSE Ok(<<first.val>> \o rest.val)

-----------------------------------------------------------------------------
(* Rendering: __str__ *)

\* the lower-cased class name
LowerName(cls) ==
    CASE cls = "At" -> "at"
      [] cls = "Sharp" -> "sharp"
      [] cls = "Resource" -> "resource"
      [] cls = "Image" -> "image"
      [] cls = "Audio" -> "audio"
      [] cls = "Video" -> "video"
      [] cls = "File" -> "file"
      [] cls = "Author" -> "author"
      [] cls = "Message" -> "message"
      [] cls = "Quote" -> "quote"
      [] cls = "Text" -> "text"
      [] cls = "Link" -> "link"
      [] OTHER -> "custom"

\* get_type, with the overrides of Image and Custom
get_type(e) ==
    IF e.cls = "Image" THEN "img"
    ELSE IF e.cls = "Custom" THEN e.tag
    ELSE LowerName(e.cls)

\* _attr with the isinstance test first: True and False taken as numbers
_attr_int_first(key, value) ==
    IF value.kind \in {"int", "bool"} THEN Flat(key) \o "=" \o Flat(PyStr(value))
    ELSE IF value.kind = "bool" /\ value.b THEN Flat(key)
    ELSE IF value.kind = "bool" /\ ~value.b THEN "no-" \o Flat(key)
    ELSE Flat(key) \o "=\"" \o escape(PyStr(value)) \o "\""

\* _attr(key, value) of Element.__str__ and Custom.__str__; bool is a
\* subclass of int, so the isinstance test accepts both kinds
_attr(key, value) ==
    IF value.kind = "bool" /\ value.b THEN Flat(key)
    ELSE IF value.kind = "bool" /\ ~value.b THEN "no-" \o Flat(key)
    ELSE IF value.kind \in {"int", "bool"} THEN Flat(key) \o "=" \o Flat(PyStr(value))
    ELSE Flat(key) \o "=\"" \o escape(PyStr(value)) \o "\""

\* the attribute strings of the items whose key does not start with "_"
AttrTokens(d) ==
    LET Public(item) == ~StartsUnderscore(item.k)
        shown == SelectSeq(d, Public)
    IN  [i \in DOMAIN shown |-> _attr(shown[i].k, shown[i].v)]

\* Element.__str__
Element_str(e) == Ok("<" \o get_type(e) \o " " \o Join(" ", AttrTokens(e.dict)) \o " />")

\* Text.__str__
Text_str(e) == EscapeValue(Get(e.dict, k_text))

\* Link.__str__
Link_str(e) ==
    LET url == EscapeValue(Get(e.dict, k_url))
        display == Get(e.dict, k_display)
    IN  IF ~Truthy(display)
        THEN (IF ~url.ok THEN url ELSE Ok("<a href=\"" \o url.val \o "\"/>"))
        ELSE IF ~url.ok THEN url
        ELSE IF ~EscapeValue(display).ok THEN EscapeValue(display)
        ELSE Ok("<a href=\"" \o url.val \o "\">" \o EscapeValue(display).val \o "</a>")

\* the tag each Style subclass writes
StyleTag(cls) ==
    CASE cls = "Bold" -> "b"
      [] cls = "Italic" -> "i"
      [] cls = "Underline" -> "u"
      [] cls = "Strikethrough" -> "s"
      [] cls = "Spoiler" -> "spl"
      [] cls = "Code" -> "code"
      [] cls = "Superscript" -> "sup"
      [] cls = "Subscript" -> "sub"
      [] OTHER -> "p"

\* Bold.__str__ ... Paragraph.__str__, and Br.__str__
Style_str(e) ==
    IF e.cls = "Br" THEN Ok("<br/>")
    ELSE LET text == EscapeValue(Get(e.dict, k_text)) IN
         IF ~text.ok THEN text
         ELSE Ok("<" \o StyleTag(e.cls) \o ">" \o text.val \o "</" \o StyleTag(e.cls) \o ">")

\* the list attr of Message.__str__
Message_attr(e) ==
    LET id == Get(e.dict, k_id)
        forward == Get(e.dict, k_forward)
        fwd == IF Truthy(forward) THEN <<"forward">> ELSE <<>>
    IN  IF ~Truthy(id) THEN Ok(fwd)
        ELSE IF ~EscapeValue(id).ok THEN EscapeValue(id)
        ELSE Ok(<<"id=\"" \o EscapeValue(id).val \o "\"">> \o fwd)

\* not self.content
ContentEmpty(e) ==
    LET content == Get(e.dict, k_content) IN
    IF content.kind = "list" THEN e.kids = <<>> ELSE ~Truthy(content)

RECURSIVE Str(_)
RECURSIVE StrAll(_)

\* the join with a space between the elements
RECURSIVE StrAll_spaced(_)
StrAll_spaced(elems) ==
    IF elems = <<>> THEN Ok("")
    ELSE LET first == Str(elems[1]) IN
         IF ~first.ok THEN first
         ELSE LET rest == StrAll_spaced(Tail(elems)) IN
              IF ~rest.ok THEN rest
              ELSE Ok(first.val \o (IF Len(elems) > 1 THEN " " ELSE "") \o rest.val)

\* "".join(str(e) for e in elems)
StrAll(elems) ==
    IF elems = <<>> THEN Ok("")
    ELSE LET first == Str(elems[1]) IN
         IF ~first.ok THEN first
         ELSE LET rest == StrAll(Tail(elems)) IN
              IF ~rest.ok THEN rest ELSE Ok(first.val \o rest.val)

\* "".join(str(e) for e in self.content): a list gives its elements, a
\* str its characters, any other value is not iterable
ContentStr(e) ==
    LET content == Get(e.dict, k_content) IN
    IF content.kind = "list" THEN StrAll(e.kids)
    ELSE IF content.kind = "str" THEN Ok(Flat(content.s))
    ELSE Raise("TypeError")

\* Message.__str__
Message_str(e) ==
    LET attr == Message_attr(e)
        type == get_type(e)
    IN  IF ~attr.ok THEN attr
        ELSE IF ContentEmpty(e) THEN Ok("<" \o type \o " " \o Join(" ", attr.val) \o " />")
        ELSE IF ~ContentStr(e).ok THEN ContentStr(e)
        ELSE Ok("<" \o type \o " " \o Join(" ", attr.val) \o ">" \o ContentStr(e).val
                \o "</" \o type \o ">")

\* Custom.__str__
Custom_str(e) ==
    LET attrs == Join(" ", AttrTokens(e.attrs)) IN
    IF e.kids # <<>>
    THEN (IF ~StrAll(e.kids).ok THEN StrAll(e.kids)
          ELSE Ok("<" \o get_type(e) \o " " \o attrs \o ">" \o StrAll(e.kids).val
                  \o "</" \o get_type(e) \o ">"))
    ELSE Ok("<" \o get_type(e) \o " " \o attrs \o " />")

StyleClasses == {STYLE_TYPE_MAP[t] : t \in DOMAIN STYLE_TYPE_MAP} \cup {"Br"}
DefaultClasses == {"At", "Sharp", "Resource", "Image", "Audio", "Video", "File", "Author"}

\* str(e): the __str__ the class of e resolves to
Str(e) ==
    CASE e.cls = "Text" -> Text_str(e)
      [] e.cls = "Link" -> Link_str(e)
      [] e.cls \in StyleClasses -> Style_str(e)
      [] e.cls \in {"Message", "Quote"} -> Message_str(e)
      [] e.cls = "Custom" -> Custom_str(e)
      [] OTHER -> Element_str(e)

-----------------------------------------------------------------------------
(* Constructors: At.all and Resource.of *)

s_all == <<"a", "l", "l">>
s_here == <<"h", "e", "r", "e">>

\* At.all
At_all(here) ==
    Construct("At", <<[k |-> k_type, v |-> VStr(IF here THEN s_here ELSE s_all)]>>).val

\* Message(id, forward, content) and Quote(id, forward, content), content
\* None or a list
Message(cls, id, forward, content) ==
    Elem(cls,
         <<[k |-> k_id, v |-> id], [k |-> k_forward, v |-> forward],
           [k |-> k_content, v |-> IF content.given THEN VList ELSE VNone]>>,
         content.list)

\* the character a path character becomes in a file URI
UriChar(c) == IF c = " " THEN <<"%", "2", "0">> ELSE <<c>>

RECURSIVE UriQuote(_)
UriQuote(cs) == IF cs = <<>> THEN <<>> ELSE UriChar(cs[1]) \o UriQuote(Tail(cs))

\* Path(path).as_uri() on a POSIX path: a relative path is a ValueError
as_uri(path) ==
    IF path = <<>> \/ path[1] # "/" THEN Raise("ValueError")
    ELSE Ok(<<"f", "i", "l", "e", ":", "/", "/">> \o UriQuote(path))

B64Alphabet ==
    <<"A", "B", "C", "D", "E", "F", "G", "H", "I", "J", "K", "L", "M", "N", "O", "P",
      "Q", "R", "S", "T", "U", "V", "W", "X", "Y", "Z", "a", "b", "c", "d", "e", "f",
      "g", "h", "i", "j", "k", "l", "m", "n", "o", "p", "q", "r", "s", "t", "u", "v",
      "w", "x", "y", "z", "0", "1", "2", "3", "4", "5", "6", "7", "8", "9", "+", "/">>

\* the base64 character of the 6 bits of n at position pos (0 the lowest)
B64At(n, pos) == B64Alphabet[((n \div (64 ^ pos)) % 64) + 1]

\* b64encode(bd).decode(), bd a sequence of bytes
RECURSIVE b64encode(_)
b64encode(bd) ==
    IF bd = <<>> THEN <<>>
    ELSE IF Len(bd) = 1
    THEN LET n == bd[1] * 65536 IN <<B64At(n, 3), B64At(n, 2), "=", "=">>
    ELSE IF Len(bd) = 2
    THEN LET n == bd[1] * 65536 + bd[2] * 256 IN <<B64At(n, 3), B64At(n, 2), B64At(n, 1), "=">>
    ELSE LET n == bd[1] * 65536 + bd[2] * 256 + bd[3]
         IN  <<B64At(n, 3), B64At(n, 2), B64At(n, 1), B64At(n, 0)>>
             \o b64encode(SubSeq(bd, 4, Len(bd)))

\* bool(raw): bytes are true when not empty, a BytesIO always
RawTruthy(raw) == raw.kind = "bytesio" \/ (raw.kind = "bytes" /\ raw.data # <<>>)

\* Resource.__post_init__
post_init(e, extra) ==
    IF extra.given /\ extra.items # <<>>
    THEN [e EXCEPT !.dict =
            SetAll(e.dict,
                   [i \in DOMAIN extra.items |->
                      [k |-> extra.items[i].k,
                       v |-> IF extra.items[i].v.kind = "ellipsis" THEN VBool(TRUE)
                             ELSE extra.items[i].v]])]
    ELSE e

NoExtra == [given |-> FALSE, items |-> <<>>]

\* the dict data of Resource.of after the choice of the source: the
\* assignment of the chosen branch replaces the dict that held extra
OfData(src, extra) == [has_extra |-> FALSE, extra |-> NoExtra, kw |-> <<[k |-> k_src, v |-> src]>>]

\* cls(**data): the generated __init__, then __post_init__ with the extra
\* given, None when data has none
OfConstruct(cls, data) ==
    LET res == Construct(cls, data.kw) IN
    IF ~res.ok THEN res
    ELSE Ok(post_init(res.val, IF data.has_extra THEN data.extra ELSE NoExtra))

\* the cache and timeout entries of data
OfOptions(data, cache, timeout) ==
    LET withCache == IF cache.kind # "none" THEN SetItem(data.kw, k_cache, cache)
                     ELSE data.kw
    IN  [data EXCEPT !.kw = IF timeout.kind # "none"
                              THEN SetItem(withCache, k_timeout, timeout)
                              ELSE withCache]

s_data == <<"d", "a", "t", "a", ":">>
s_base64 == <<";", "b", "a", "s", "e", "6", "4", ",">>

\* Resource.of testing the truth of url instead of its presence
Resource_of_truthy_url(cls, url, path, raw, mime, extra, cache, timeout) ==
    IF Truthy(url)
    THEN OfConstruct(cls, OfOptions(OfData(url, extra), cache, timeout))
    ELSE IF Truthy(path)
    THEN (IF ~as_uri(path.s).ok THEN as_uri(path.s)
          ELSE OfConstruct(cls, OfOptions(OfData(VStr(as_uri(path.s).val), extra),
                                          cache, timeout)))
    ELSE IF RawTruthy(raw) /\ Truthy(mime)
    THEN OfConstruct(cls,
                     OfOptions(OfData(VStr(s_data \o mime.s \o s_base64 \o b64encode(raw.data)),
                                      extra),
                               cache, timeout))
    ELSE Raise("ValueError")

\* Resource.of
Resource_of(cls, url, path, raw, mime, extra, cache, timeout) ==
    IF url.kind # "none"
    THEN OfConstruct(cls, OfOptions(OfData(url, extra), cache, timeout))
    ELSE IF Truthy(path)
    THEN (IF ~as_uri(path.s).ok THEN as_uri(path.s)
          ELSE OfConstruct(cls, OfOptions(OfData(VStr(as_uri(path.s).val), extra),
                                          cache, timeout)))
    ELSE IF RawTruthy(raw) /\ Truthy(mime)
    THEN OfConstruct(cls,
                     OfOptions(OfData(VStr(s_data \o mime.s \o s_base64 \o b64encode(raw.data)),
                                      extra),
                               cache, timeout))
    ELSE Raise("ValueError")

-----------------------------------------------------------------------------
(* Inputs *)

Item(key, value) == [k |-> key, v |-> value]
Node(type, attrs, children) == [type |-> type, attrs |-> attrs, children |-> children]

\* attribute names that are no field of any class
k_flag == <<"f", "l", "a", "g">>
k_n == <<"n">>
k_hidden == <<"_", "h">>

\* the text node the parser makes of character data
TextNode == Node("text", <<Item(k_text, VStr(<<"a", "&">>))>>, <<>>)

\* tags no table of transform knows
UnknownTags == {"zz", "custom"}

\* the tags of the markup: elements, links, styles, line breaks, containers
KnownTags ==
    {"text", "at", "sharp", "img", "audio", "video", "file", "author", "a", "link",
     "b", "strong", "i", "em", "u", "ins", "s", "del", "spl", "code", "sup", "sub", "p",
     "br", "newline", "message", "quote"}

AllTags == KnownTags \cup UnknownTags

\* attributes a raw element may carry: str, bool, int and None values,
\* field names and other names
Pairs ==
    { Item(k_href, VStr(<<"u", "\"">>)), Item(k_url, VStr(<<"v">>)),
      Item(k_text, VStr(<<"t", "<">>)), Item(k_id, VStr(<<"x">>)),
      Item(k_forward, VStr(<<"y">>)), Item(k_src, VStr(<<"s">>)),
      Item(k_flag, VBool(TRUE)), Item(k_cache, VBool(FALSE)), Item(k_n, VInt(1)),
      Item(k_hidden, VStr(<<"h">>)), Item(k_content, VStr(<<"c", "<">>)),
      Item(k_role, VNone) }

\* the attribute mappings of exactly n of the pairs, in every order
RECURSIVE AttrMaps(_)
AttrMaps(n) ==
    IF n = 0 THEN {<<>>}
    ELSE {Append(m, p) : <<m, p>> \in
            {mp \in AttrMaps(n - 1) \X Pairs : ~Has(mp[1], mp[2].k)}}

AttrMapsUpTo(n) == UNION {AttrMaps(i) : i \in 0..n}

\* attributes of every kind of value, the required fields among them
MixedAttrs ==
    <<Item(k_src, VStr(<<"s">>)), Item(k_flag, VBool(TRUE)), Item(k_id, VStr(<<"x", ">">>)),
      Item(k_cache, VBool(FALSE)), Item(k_hidden, VStr(<<"h">>)), Item(k_n, VInt(12)),
      Item(k_text, VStr(<<"t">>)), Item(k_role, VNone)>>

\* every tag once, with at most one attribute or the mixed ones, and no
\* child, a text child or a child without text
DispatchInputs ==
    {<<Node(t, a, c)>> : t \in AllTags, a \in AttrMapsUpTo(1) \cup {MixedAttrs},
                         c \in {<<>>, <<TextNode>>, <<Node("zz", <<>>, <<>>)>>}}

\* tags of each kind of conversion, with up to MaxAttrs attributes
AttrTags == {"at", "img", "a", "b", "message", "zz"}

AttrInputs ==
    {<<Node(t, a, c)>> : t \in AttrTags, a \in AttrMapsUpTo(MaxAttrs),
                         c \in {<<>>, <<TextNode>>}}

\* the shapes of the nodes of a nested input
Labels ==
    { [type |-> "message",
       attrs |-> <<Item(k_id, VStr(<<"m">>)), Item(k_forward, VBool(TRUE))>>],
      [type |-> "quote", attrs |-> <<>>],
      [type |-> "zz",
       attrs |-> <<Item(k_hidden, VStr(<<"h">>)), Item(k_n, VInt(1)),
                   Item(k_cache, VBool(FALSE)), Item(k_flag, VBool(TRUE)),
                   Item(k_id, VStr(<<"<">>))>>],
      [type |-> "text", attrs |-> <<Item(k_text, VStr(<<"a", "&">>))>>],
      [type |-> "a", attrs |-> <<>>],
      [type |-> "b", attrs |-> <<>>] }

\* the forests (sibling lists) of exactly n nodes
RECURSIVE Forests(_)
Forests(n) ==
    IF n = 0 THEN {<<>>}
    ELSE UNION {
           {<<Node(l.type, l.attrs, c)>> \o f :
               l \in Labels, c \in Forests(k - 1), f \in Forests(n - k)}
           : k \in 1..n}

NestedInputs == UNION {Forests(n) : n \in 0..MaxNodes}

RawInputs == DispatchInputs \cup AttrInputs \cup NestedInputs

NoRaw == [kind |-> "none", data |-> <<>>]

NoArgs ==
    [cls |-> "", url |-> VNone, path |-> VNone, raw |-> NoRaw, mime |-> VNone,
     extra |-> NoExtra, cache |-> VNone, timeout |-> VNone, here |-> FALSE]

ResourceClasses == {"Resource", "Image", "Audio", "Video", "File"}

OfArgs ==
    [cls : ResourceClasses,
     url : {VNone, VStr(<<>>), VStr(<<"u">>)},
     path : {VNone, VStr(<<>>), VStr(<<"/", "p", " ", "q">>), VStr(<<"p">>)},
     raw : {NoRaw, [kind |-> "bytes", data |-> <<>>], [kind |-> "bytes", data |-> <<1, 2>>],
            [kind |-> "bytesio", data |-> <<>>], [kind |-> "bytesio", data |-> <<1, 2, 3, 255>>]},
     mime : {VNone, VStr(<<>>), VStr(<<"m">>)},
     extra : {NoExtra, [given |-> TRUE, items |-> <<>>],
              [given |-> TRUE, items |-> <<Item(k_flag, VEllipsis), Item(k_n, VInt(1))>>]},
     cache : {VNone, VBool(FALSE)},
     timeout : {VNone, VStr(<<"t">>)},
     here : {FALSE}]

\* elements to put in the content of a Message built directly
Leaf(text) == Construct("Text", <<Item(k_text, VStr(text))>>).val
Bold(text) == Construct("Bold", <<Item(k_text, VStr(text))>>).val

NoList == [given |-> FALSE, list |-> <<>>]
SomeList(l) == [given |-> TRUE, list |-> l]

InnerMessages ==
    {Message("Quote", VStr(<<"q">>), VNone, c) :
        c \in {NoList, SomeList(<<Bold(<<"b">>)>>)}}

Contents ==
    {NoList, SomeList(<<>>), SomeList(<<Leaf(<<"a">>)>>),
     SomeList(<<Leaf(<<"a">>), Bold(<<"<">>)>>), SomeList(<<Bold(<<"<">>), Leaf(<<"a">>)>>)}
    \cup {SomeList(<<m, Leaf(<<"a">>)>>) : m \in InnerMessages}

-----------------------------------------------------------------------------
(* The calls *)

\* transform(elements) on a parsed input
CallTransform ==
    /\ pc = "start"
    /\ \E es \in RawInputs :
         /\ elements' = es
         /\ msg' = transform(es)
    /\ pc' = "called"
    /\ op' = "transform"
    /\ UNCHANGED <<args, out>>

\* At.all(here)
CallAtAll ==
    /\ pc = "start"
    /\ \E here \in BOOLEAN :
         /\ args' = [NoArgs EXCEPT !.here = here]
         /\ msg' = Ok(<<At_all(here)>>)
    /\ pc' = "called"
    /\ op' = "At.all"
    /\ UNCHANGED <<elements, out>>

\* Message(...) or Quote(...) built directly
CallMessage ==
    /\ pc = "start"
    /\ \E cls \in {"Message", "Quote"},
          id \in {VNone, VStr(<<>>), VStr(<<"m", "\"">>)},
          forward \in {VNone, VBool(FALSE), VBool(TRUE)},
          content \in Contents :
         msg' = Ok(<<Message(cls, id, forward, content)>>)
    /\ pc' = "called"
    /\ op' = "Message"
    /\ UNCHANGED <<elements, args, out>>

\* cls.of(url, path, raw, mime, extra, cache, timeout)
CallResourceOf ==
    /\ pc = "start"
    /\ \E a \in OfArgs :
         /\ args' = a
         /\ msg' = LET res == Resource_of(a.cls, a.url, a.path, a.raw, a.mime, a.extra,
                                          a.cache, a.timeout)
                   IN  IF res.ok THEN Ok(<<res.val>>) ELSE res
    /\ pc' = "called"
    /\ op' = "Resource.of"
    /\ UNCHANGED <<elements, out>>

\* str(e) of every element the call returned
CallStr ==
    /\ pc = "called"
    /\ msg.ok
    /\ out' = [i \in DOMAIN msg.val |-> Str(msg.val[i])]
    /\ pc' = "rendered"
    /\ UNCHANGED <<op, elements, args, msg>>

-----------------------------------------------------------------------------
Init ==
    /\ pc = "start"
    /\ op = "none"
    /\ elements = <<>>
    /\ args = NoArgs
    /\ msg = Ok(<<>>)
    /\ out = <<>>

Next ==
    \/ CallTransform
    \/ CallAtAll
    \/ CallMessage
    \/ CallResourceOf
    \/ CallStr

Spec == Init /\ [][Next]_vars

-----------------------------------------------------------------------------
(* Properties *)

Called == pc \in {"called", "rendered"}

\* C1: the rendering of At.all() with here=false is exactly
\* <at type="all" />, the unset id, name and role adding nothing.
C1_AtAllRendersTypeOnly ==
    (op = "At.all" /\ ~args.here /\ pc = "rendered")
        => out = <<Ok("<at type=\"all\" />")>>

\* the number of content sources given among url, path and raw with mime,
\* an empty path, empty bytes and an empty mime counting as not given
NumSources(a) ==
    (IF a.url.kind # "none" THEN 1 ELSE 0)
    + (IF a.path.kind = "str" /\ a.path.s # <<>> THEN 1 ELSE 0)
    + (IF (a.raw.kind = "bytesio" \/ (a.raw.kind = "bytes" /\ a.raw.data # <<>>))
          /\ a.mime.kind = "str" /\ a.mime.s # <<>>
       THEN 1 ELSE 0)

UsesUrl(a) == a.url.kind # "none"
UsesPath(a) == ~UsesUrl(a) /\ a.path.kind = "str" /\ a.path.s # <<>>
UsesRaw(a) ==
    /\ ~UsesUrl(a) /\ ~UsesPath(a)
    /\ a.raw.kind = "bytesio" \/ (a.raw.kind = "bytes" /\ a.raw.data # <<>>)
    /\ a.mime.kind = "str" /\ a.mime.s # <<>>

C3_ExtraMerged ==
    (op = "Resource.of" /\ Called /\ msg.ok /\ args.extra.given) =>
        \A i \in DOMAIN args.extra.items :
            LET item == args.extra.items[i] IN
            /\ Has(msg.val[1].dict, item.k)
            /\ Get(msg.val[1].dict, item.k)
                 = IF item.v.kind = "ellipsis" THEN VBool(TRUE) ELSE item.v

\* the encoding of an attribute by the type of its value: true the bare
\* key, false no-key, a number key=value, anything else key="escaped"
Canon(key, value) ==
    CASE value.kind = "bool" /\ value.b -> Flat(key)
      [] value.kind = "bool" /\ ~value.b -> "no-" \o Flat(key)
      [] value.kind = "int" -> Flat(key) \o "=" \o ToString(value.n)
      [] OTHER -> Flat(key) \o "=\"" \o escape(PyStr(value)) \o "\""

\* the encodings of the items of d whose key does not start with "_"
CanonPublic(d) ==
    LET Public(item) == item.k[1] # "_"
        shown == SelectSeq(d, Public)
    IN  [i \in DOMAIN shown |-> Canon(shown[i].k, shown[i].v)]

\* the text between "<tag " and the end of the opening tag, as the
\* default serializer and Custom write it
DefaultOpening(e) ==
    "<" \o (IF e.cls = "Custom" THEN e.tag ELSE IF e.cls = "Image" THEN "img"
            ELSE LowerName(e.cls))
    \o " " \o Join(" ", CanonPublic(IF e.cls = "Custom" THEN e.attrs ELSE e.dict))

DefaultEncoded(i) ==
    LET e == msg.val[i] IN
    /\ (e.cls \in DefaultClasses \/ (e.cls = "Custom" /\ e.kids = <<>>))
         => out[i] = Ok(DefaultOpening(e) \o " />")
    /\ (e.cls = "Custom" /\ e.kids # <<>> /\ out[i].ok)
         => out[i].val = DefaultOpening(e) \o ">" \o StrAll(e.kids).val
                         \o "</" \o e.tag \o ">"

\* the attributes Message.__str__ writes, each encoded by its type
MessageEncoded(i) ==
    LET e == msg.val[i]
        Written(item) == item.k \in {k_id, k_forward} /\ Truthy(item.v)
        written == SelectSeq(e.dict, Written)
    IN  (e.cls \in {"Message", "Quote"} /\ out[i].ok /\ ContentEmpty(e))
            => out[i].val = "<" \o LowerName(e.cls) \o " "
                            \o Join(" ", [j \in DOMAIN written |->
                                            Canon(written[j].k, written[j].v)])
                            \o " />"

\* C4 as stated: for any variant, every attribute the serializer writes is
\* encoded by the type of its value.
C4_AnyVariantEncodesByType ==
    pc = "rendered" => \A i \in DOMAIN msg.val : DefaultEncoded(i) /\ MessageEncoded(i)

\* C4 amended: for the default serializer (At, Sharp, Image, Audio, Video,
\* File, Author) and for Custom, every attribute written is encoded by the
\* type of its value, booleans tested before numbers; Message and Quote
\* write id quoted and forward bare whenever the value is truthy, whatever
\* its type.
C4_DefaultEncodesByType ==
    pc = "rendered" =>
        \A i \in DOMAIN msg.val :
            LET e == msg.val[i]
                id == Get(e.dict, k_id)
                forward == Get(e.dict, k_forward)
            IN  /\ DefaultEncoded(i)
                /\ (e.cls \in {"Message", "Quote"} /\ out[i].ok /\ ContentEmpty(e))
                     => out[i].val =
                          "<" \o LowerName(e.cls) \o " "
                          \o Join(" ", (IF Truthy(id)
                                        THEN <<"id=\"" \o escape(id.s) \o "\"">>
                                        ELSE <<>>)
                                       \o (IF Truthy(forward) THEN <<"forward">> ELSE <<>>))
                          \o " />"

\* an element of the default serializer rendered with a true, a false, a
\* numeric and a string attribute
C4_Witness ==
    /\ pc = "rendered"
    /\ \E i \in DOMAIN msg.val :
         /\ msg.val[i].cls \in DefaultClasses
         /\ \A kind \in {"int", "str"} :
              \E j \in DOMAIN msg.val[i].dict : msg.val[i].dict[j].v.kind = kind
         /\ \A b \in BOOLEAN :
              \E j \in DOMAIN msg.val[i].dict : msg.val[i].dict[j].v = VBool(b)

\* the class each tag is converted to, by the tables in their order of
\* priority; Custom for a tag in none of them
ExpectedClass(tag) ==
    CASE tag = "text" -> "Text"
      [] tag = "at" -> "At"
      [] tag = "sharp" -> "Sharp"
      [] tag = "img" -> "Image"
      [] tag = "audio" -> "Audio"
      [] tag = "video" -> "Video"
      [] tag = "file" -> "File"
      [] tag = "author" -> "Author"
      [] tag \in {"a", "link"} -> "Link"
      [] tag \in {"b", "strong"} -> "Bold"
      [] tag \in {"i", "em"} -> "Italic"
      [] tag \in {"u", "ins"} -> "Underline"
      [] tag \in {"s", "del"} -> "Strikethrough"
      [] tag = "spl" -> "Spoiler"
      [] tag = "code" -> "Code"
      [] tag = "sup" -> "Superscript"
      [] tag = "sub" -> "Subscript"
      [] tag = "p" -> "Paragraph"
      [] tag \in {"br", "newline"} -> "Br"
      [] tag = "message" -> "Message"
      [] tag = "quote" -> "Quote"
      [] OTHER -> "Custom"

\* the tags whose children transform converts
IsContainer(tag) == ExpectedClass(tag) \in {"Message", "Quote", "Custom"}

\* every element has the class of its node's tag, at every depth
RECURSIVE ClassesMatch(_, _)
ClassesMatch(nodes, elems) ==
    \A i \in DOMAIN nodes \cap DOMAIN elems :
        /\ elems[i].cls = ExpectedClass(nodes[i].type)
        /\ (IsContainer(nodes[i].type) /\ nodes[i].children # <<>>)
             => ClassesMatch(nodes[i].children, elems[i].kids)

\* C5: transform gives every node the variant of the table its tag is in
\* (strong and b Bold, em Italic, link Link, ...), and Custom only to a
\* tag that is in no table.
C5_DispatchByTag ==
    (op = "transform" /\ Called /\ msg.ok) =>
        /\ ClassesMatch(elements, msg.val)
        /\ \A i \in DOMAIN elements \cap DOMAIN msg.val :
             msg.val[i].cls = "Custom" <=> elements[i].type \in UnknownTags

\* a strong node converted to Bold and an unknown tag converted to Custom
C5_Witness ==
    /\ op = "transform" /\ Called /\ msg.ok
    /\ Len(elements) = 1 /\ Len(msg.val) = 1
    /\ elements[1].type = "strong"
    /\ msg.val[1].cls = "Bold"

\* the markup of an unknown-tag node after transform and render: its tag,
\* the encodings of the attributes Shown selects in their order, and its
\* children in order; self-closing when there is no child
RECURSIVE CustomMarkup(_, _)
CustomMarkup(node, hideUnderscore) ==
    LET Shown(item) == ~hideUnderscore \/ item.k[1] # "_"
        shown == SelectSeq(node.attrs, Shown)
        opening == "<" \o node.type \o " "
                   \o Join(" ", [j \in DOMAIN shown |-> Canon(shown[j].k, shown[j].v)])
        child(c) == IF c.type \in UnknownTags THEN CustomMarkup(c, hideUnderscore)
                    ELSE Str(TransformElem(c).val).val
    IN  IF node.children = <<>> THEN opening \o " />"
        ELSE opening \o ">"
             \o Join("", [j \in DOMAIN node.children |-> child(node.children[j])])
             \o "</" \o node.type \o ">"

\* C6 as stated: the markup of an unknown-tag node carries every attribute
\* of the node.
C6_CustomKeepsAllAttrs ==
    (op = "transform" /\ pc = "rendered") =>
        \A i \in DOMAIN elements :
            (elements[i].type \in UnknownTags /\ out[i].ok)
                => out[i].val = CustomMarkup(elements[i], FALSE)

\* C6 amended: transform and then render keeps an unknown-tag node's tag,
\* every attribute whose key does not start with "_" (same order, encoded
\* by the attribute rule) and the renders of its children in order, at
\* every depth, self-closing exactly when it has no child; an attribute
\* whose key starts with "_" is left out.
C6_CustomKeepsPublicAttrs ==
    (op = "transform" /\ pc = "rendered") =>
        \A i \in DOMAIN elements :
            (elements[i].type \in UnknownTags /\ out[i].ok)
                => out[i].val = CustomMarkup(elements[i], TRUE)

\* an unknown-tag node with a "_" attribute and an unknown-tag child that
\* has a child itself, rendered
C6_Witness ==
    /\ op = "transform" /\ pc = "rendered"
    /\ Len(elements) = 1
    /\ elements[1].type \in UnknownTags
    /\ \E j \in DOMAIN elements[1].attrs : elements[1].attrs[j].k[1] = "_"
    /\ Len(elements[1].children) = 1
    /\ elements[1].children[1].type \in UnknownTags
    /\ elements[1].children[1].children # <<>>
    /\ out[1].ok

\* the renders of the elements, concatenated in order with no separator
RECURSIVE Concat(_)
Concat(elems) == IF elems = <<>> THEN "" ELSE Str(elems[1]).val \o Concat(Tail(elems))

\* C7: a Message or Quote with empty or absent content renders as a
\* self-closing tag; with content it renders as the opening tag (id="..."
\* and bare forward when set), the renders of its children in order with no
\* separator, and the closing tag, also when transform made it from a
\* message or quote node with children (a content attribute of a node
\* without children is a str, written as it is).
C7_MessageRender ==
    pc = "rendered" =>
        \A i \in DOMAIN msg.val :
            LET e == msg.val[i]
                id == Get(e.dict, k_id)
                forward == Get(e.dict, k_forward)
                content == Get(e.dict, k_content)
                type == IF e.cls = "Message" THEN "message" ELSE "quote"
                opening == "<" \o type \o " "
                           \o Join(" ", (IF Truthy(id)
                                         THEN <<"id=\"" \o escape(id.s) \o "\"">>
                                         ELSE <<>>)
                                        \o (IF Truthy(forward) THEN <<"forward">> ELSE <<>>))
            IN  (e.cls \in {"Message", "Quote"} /\ out[i].ok) =>
                    /\ (content.kind = "none" \/ (content.kind = "list" /\ e.kids = <<>>))
                         => out[i].val = opening \o " />"
                    /\ (content.kind = "list" /\ e.kids # <<>>)
                         => out[i].val = opening \o ">" \o Concat(e.kids) \o "</" \o type \o ">"
                    /\ content.kind = "str"
                         => out[i].val = IF content.s = <<>> THEN opening \o " />"
                                         ELSE opening \o ">" \o Flat(content.s)
                                              \o "</" \o type \o ">"

\* a message node with id, forward and two children, transformed and
\* rendered
C7_Witness ==
    /\ op = "transform" /\ pc = "rendered"
    /\ Len(msg.val) = 1
    /\ msg.val[1].cls = "Message"
    /\ Truthy(Get(msg.val[1].dict, k_id))
    /\ Truthy(Get(msg.val[1].dict, k_forward))
    /\ Len(msg.val[1].kids) = 2
    /\ msg.val[1].kids[1] # msg.val[1].kids[2]
    /\ out[1].ok

\* the text attribute of the first child, None without a child
FirstChildText(node) ==
    IF node.children = <<>> THEN VNone ELSE Get(node.children[1].attrs, k_text)

\* C8: after transform, each fixed field holds the value the variant's
\* rule gives it (Link.url from href, Link.display and a style wrapper's
\* text from the first child's text); a node attribute named like a fixed
\* field never overwrites it.
C8_FixedFieldsKeepRule ==
    (op = "transform" /\ Called /\ msg.ok) =>
        \A i \in DOMAIN elements :
            LET node == elements[i]
                e == msg.val[i]
            IN  /\ e.cls = "Link" =>
                     /\ Get(e.dict, k_url) = Get(node.attrs, k_href)
                     /\ Get(e.dict, k_display) = FirstChildText(node)
                /\ (e.cls \in StyleClasses /\ e.cls # "Br") =>
                     Get(e.dict, k_text) = FirstChildText(node)

\* a node is malformed: a link without href, or a style tag without child
Malformed(node) ==
    \/ node.type \in {"a", "link"} /\ \A j \in DOMAIN node.attrs : node.attrs[j].k # k_href
    \/ /\ node.type \in {"b", "strong", "i", "em", "u", "ins", "s", "del", "spl", "code",
                         "sup", "sub", "p"}
       /\ node.children = <<>>

\* a malformed node among the nodes, or below message, quote and
\* unknown-tag nodes at any depth
RECURSIVE HasMalformed(_)
HasMalformed(nodes) ==
    \E i \in DOMAIN nodes :
        \/ Malformed(nodes[i])
        \/ IsContainer(nodes[i].type) /\ HasMalformed(nodes[i].children)

\* every node, at every depth, has an unknown tag
RECURSIVE OnlyUnknown(_)
OnlyUnknown(nodes) ==
    \A i \in DOMAIN nodes :
        nodes[i].type \in UnknownTags /\ OnlyUnknown(nodes[i].children)

\* C9: a malformed node (a or link without href, a style tag without a
\* first child) at any position and any depth below message, quote and
\* unknown-tag nodes makes the whole transform fail with no partial list;
\* unknown tags alone never make it fail.
C9_MalformedAborts ==
    (op = "transform" /\ Called) =>
        /\ HasMalformed(elements) => ~msg.ok /\ msg.val = <<>>
        /\ OnlyUnknown(elements) => msg.ok

\* a malformed link as the second child of an unknown-tag node whose first
\* child is well formed
C9_Witness ==
    /\ op = "transform" /\ Called
    /\ Len(elements) = 1
    /\ elements[1].type \in UnknownTags
    /\ Len(elements[1].children) = 2
    /\ ~HasMalformed(<<elements[1].children[1]>>)
    /\ elements[1].children[2].type = "a"
    /\ ~msg.ok

\* the elements are the conversions of the nodes, one for one in order, at
\* every depth
RECURSIVE OneForOne(_, _)
OneForOne(nodes, elems) ==
    /\ Len(elems) = Len(nodes)
    /\ \A i \in DOMAIN nodes :
         /\ elems[i] = TransformElem(nodes[i]).val
         /\ elems[i].cls = ExpectedClass(nodes[i].type)
         /\ (IsContainer(nodes[i].type)
               /\ (nodes[i].children # <<>> \/ elems[i].cls = "Custom"))
              => OneForOne(nodes[i].children, elems[i].kids)

\* C10: when transform succeeds the list returned is as long as the input
\* and its i-th element is the conversion of the i-th node; the same holds
\* for the content of Message and Quote and the children of Custom.
C10_OneForOne ==
    (op = "transform" /\ Called /\ msg.ok) => OneForOne(elements, msg.val)

\* three siblings of different tags converted
C10_Witness ==
    /\ op = "transform" /\ Called /\ msg.ok
    /\ Len(elements) = 3
    /\ elements[1].type # elements[2].type
    /\ elements[2].type # elements[3].type
    /\ elements[1].type # elements[3].type
====
